---- MODULE Spec2Model ----
(***************************************************************************)
(* Model of the TFSage feature-extraction core:                            *)
(*   tfsage/features/extract_features.py          (_extract_features)      *)
(*   tfsage/features/extract_features_parallel.py (batch over BED files)   *)
(*   tfsage/features/extract_features_chip_atlas.py (batch over names of   *)
(*                                  one merged file, optional cache dir)   *)
(* A batch is an orchestrator (the caller's thread), a ProcessPoolExecutor *)
(* of max_workers worker processes and one task per input.  Files are      *)
(* sequences of BED lines; the filter (ripgrep) and the scoring are        *)
(* operators computed as the code computes them.                           *)
(***************************************************************************)
EXTENDS Integers, Sequences, FiniteSets, TLC

(***************************************************************************)
(* Bounds of the model.                                                    *)
(***************************************************************************)
MaxInputs == 2          \* longest input list of a batch
MaxWorkers == 2         \* largest max_workers

(***************************************************************************)
(* Values.                                                                 *)
(***************************************************************************)
None == "None"          \* Python's None (data_dir, a worker's _gene_loc_set)
CacheDir == "cache"     \* the data_dir of a batch that has one
BadCoord == -1          \* stands for a coordinate field that is not an integer
TAB == "TAB"

\* Names are strings, modelled as sequences of characters; "." is the one
\* regular-expression metacharacter of the alphabet.
NameA == <<"a">>
NameB == <<"b">>
NameAB == <<"a", "b">>
NameDot == <<".">>
Names == {NameA, NameB, NameDot}

\* Lines of a BED file: coordinate, name token, one further field.
LineA == [pos |-> 0, tok |-> NameA, other |-> <<>>]
LineAB == [pos |-> 1, tok |-> NameAB, other |-> <<>>]
LineB == [pos |-> 7, tok |-> NameB, other |-> NameA]
LineBad == [pos |-> BadCoord, tok |-> NameB, other |-> <<>>]
LineUniverse == {LineA, LineAB, LineB, LineBad}
\* A line-sized gap of a file written past its end (NUL bytes).
Hole == [pos |-> BadCoord, tok |-> <<>>, other |-> <<>>]

\* The text of a line as the filter sees it.
PosText(p) == IF p = BadCoord THEN <<"x">> ELSE <<"0">>
LineText(l) == PosText(l.pos) \o <<TAB>> \o l.tok \o <<TAB>> \o l.other

\* Reference sets (gene_loc_set.regions): regions annotated with a name.
Region(p, n) == [pos |-> p, annotation |-> <<n>>]
RefSets == { <<Region(0, "g1")>>, <<Region(0, "g1"), Region(2, "g2")>> }
\* The set a batch over names is run on.
NamesRefSets == { <<Region(0, "g1"), Region(2, "g2")>> }

\* Files: a path holds no file, or a file of some lines.
NoFile == [exists |-> FALSE, data |-> <<>>]
File(d) == [exists |-> TRUE, data |-> d]

\* Paths.
PathOf(k, n, w) == [kind |-> k, name |-> n, w |-> w]
MergedPath == PathOf("merged", <<>>, 0)
\* Variant: one cache file for all names.
CachePath_OneForAll(n) == PathOf("cache", NameA, 0)
CachePath(n) == PathOf("cache", n, 0)      \* os.path.join(data_dir, f"{name}.bed")
TmpPath(w) == PathOf("tmp", <<>>, w)       \* worker w's NamedTemporaryFile
BedPath(n) == PathOf("bed", n, 0)          \* the peak file called n
BedNames == {<<"e">>, <<"p">>, <<"q">>, <<"m">>, <<"z">>}
BedPaths == {BedPath(n) : n \in BedNames}
Paths == {MergedPath} \cup {CachePath(n) : n \in Names}
           \cup {TmpPath(w) : w \in 1..MaxWorkers} \cup BedPaths
\* The peak files of a batch over files: a zero-byte file, two parsable
\* files, an unparsable one; BedPath(<<"z">>) does not exist.
BedFiles == [p \in BedPaths |->
               CASE p = BedPath(<<"e">>) -> File(<<>>)
                 [] p = BedPath(<<"p">>) -> File(<<LineA, LineAB>>)
                 [] p = BedPath(<<"q">>) -> File(<<LineB>>)
                 [] p = BedPath(<<"m">>) -> File(<<LineBad>>)
                 [] OTHER -> NoFile]

\* What a task or a batch ends with: a feature vector or an exception.
\* ident is the set of input identifiers the exception's message carries.
Vec(v) == [kind |-> "vec", val |-> v, ident |-> {}]
Exc(k, ids) == [kind |-> k, val |-> <<>>, ident |-> ids]
Unset == [kind |-> "none", val |-> <<>>, ident |-> {}]
IsVec(x) == x.kind = "vec"
IsExc(x) == x.kind \notin {"vec", "none"}

(***************************************************************************)
(* The filter: rg -N name bed_file.  ripgrep reads name as a regular       *)
(* expression and prints every line in which the pattern matches some      *)
(* substring; of the pattern language the model keeps literals and ".".    *)
(***************************************************************************)
MatchesAt(pat, text, k) ==
    \A j \in 1..Len(pat) : pat[j] = "." \/ pat[j] = text[k + j]
RgMatches(pat, text) ==
    \E k \in 0..(Len(text) - Len(pat)) : MatchesAt(pat, text, k)
RgOutput(name, lines) == SelectSeq(lines, LAMBDA l : RgMatches(name, LineText(l)))
\* rg's exit status: 2 when the file cannot be read, 1 when no line
\* matched, 0 otherwise.
RgStatus(name, file) ==
    IF ~file.exists THEN 2
    ELSE IF RgOutput(name, file.data) = <<>> THEN 1 ELSE 0

(***************************************************************************)
(* Scoring: lisa's DataInterface._make_basic_rp_map followed by the row    *)
(* sum.  Weights are fixed-point (WeightOne stands for 1.0): a query       *)
(* region at distance d of a reference region weighs 2^(-d/decay), and     *)
(* nothing beyond the window of WindowFactor * decay.                      *)
(***************************************************************************)
Decay == 1               \* decay, in the model's coordinate unit (default: 10 000 bases)
WindowFactor == 5
Pow2(n) == IF n <= 0 THEN 1 ELSE IF n = 1 THEN 2 ELSE IF n = 2 THEN 4
           ELSE IF n = 3 THEN 8 ELSE IF n = 4 THEN 16 ELSE 32
WeightOne == Pow2(WindowFactor)
Dist(a, b) == IF a >= b THEN a - b ELSE b - a
Weight(d) == IF d > WindowFactor * Decay THEN 0
             ELSE Pow2(WindowFactor - (d \div Decay))
RECURSIVE RowSum(_, _)
RowSum(gene, regions) ==
    IF regions = <<>> THEN 0
    ELSE Weight(Dist(gene.pos, Head(regions).pos)) + RowSum(gene, Tail(regions))
MakeBasicRpMapSum(gene_loc_set, region_set) ==
    [k \in 1..Len(gene_loc_set) |-> RowSum(gene_loc_set[k], region_set)]

zeros(n) == [k \in 1..n |-> 0]                       \* np.zeros(n)
extract_region_names(region_set) ==
    [k \in 1..Len(region_set) |-> region_set[k].annotation[1]]
\* Region.read_bedfile: fails on a line whose coordinates are not integers.
Parsable(lines) == \A k \in 1..Len(lines) : lines[k].pos # BadCoord

(***************************************************************************)
(* The patched Region.slop.  A region here has its chromosome, start, end  *)
(* and annotation; a genome gives the length of each chromosome.           *)
(***************************************************************************)
MaxCoord == 3           \* largest start, width and d

ChromLen == 2           \* length of every chromosome of the genomes
Chromosomes == {"chr1", "chr2"}
Genomes == {[c \in Chromosomes |-> ChromLen], [c \in Chromosomes |-> ChromLen + 1]}
NoAnnotation == <<>>    \* annotation=None, the constructor's default
GRegion(chromosome, start, end, annotation) ==
    [chromosome |-> chromosome, start |-> start, end |-> end,
     annotation |-> annotation]
Max(a, b) == IF a >= b THEN a ELSE b
\* Variant: the end is clipped to the chromosome's length, as the method
\* that the patch replaces does.
slop_Clipped(self, d, genome) ==
    GRegion(self.chromosome, Max(0, self.start - d),
            IF self.end + d <= genome[self.chromosome] THEN self.end + d
            ELSE genome[self.chromosome],
            NoAnnotation)
\* lambda self, d, genome: Region(self.chromosome, max(0, self.start - d),
\*                                self.end + d)
slop(self, d, genome) ==
    GRegion(self.chromosome, Max(0, self.start - d), self.end + d, NoAnnotation)

\* The regions slop is called on: of positive width, inside the chromosome
\* or beyond its end (regions are not validated), annotated with a name.
SlopRegions ==
    {GRegion(c, s, s + w, <<"g1">>) :
        c \in Chromosomes, s \in 0..MaxCoord, w \in 1..MaxCoord}
NoSlopCall == [pc |-> "none", self |-> GRegion("chr1", 0, 1, NoAnnotation), d |-> 0,
               genome |-> [c \in Chromosomes |-> ChromLen],
               out |-> GRegion("chr1", 0, 1, NoAnnotation)]

(***************************************************************************)
(* State.                                                                  *)
(***************************************************************************)
VARIABLES
    mode,           \* "files": extract_features_parallel, "names": extract_features_chip_atlas
    inputs,         \* bed_files / individual_names
    gene_loc_set,   \* the caller's reference set
    max_workers,    \* size of the pool
    data_dir,       \* None or the cache directory
    fs,             \* the file system: path -> file
    fs0,            \* the file system as it was when the batch was called
    dirs,           \* the directories made so far
    pc,             \* where the orchestrator is
    submitted,      \* number of executor.submit calls made
    futures,        \* futures[f]: the index the dict maps future f to
    results,        \* the slot array
    completed,      \* futures in the order as_completed has yielded them
    outcome,        \* what the batch call ends with: Unset, a matrix or an exception
    task,           \* per future: the state of its task
    worker,         \* per worker process: its state and its _gene_loc_set
    slop_call       \* a call of the patched Region.slop: its arguments and result
vars == <<slop_call, mode, inputs, gene_loc_set, max_workers, data_dir, fs, fs0, dirs, pc,
          submitted, futures, results, completed, outcome, task, worker>>

N == Len(inputs)
Futures == 1..N
Workers == 1..max_workers

SeqsUpTo(S, n) == UNION {[1..k -> S] : k \in 0..n}
Range(s) == {s[k] : k \in 1..Len(s)}

\* The merged files a batch over names is run on: one where "a" is a
\* token and part of another token; one where "a" is only in another
\* field and the last line does not parse; one that has no line of "b";
\* and no file at all.
MergedFiles ==
    {File(<<LineA, LineAB>>), File(<<LineB, LineBad>>), File(<<LineA>>), NoFile}
\* What a cache file left by an earlier run may hold: lines of a merged
\* file of that time, or nothing; and the merged files of today it is
\* found next to.
StaleContents == {<<LineB>>, <<>>}
StaleMerged == {File(<<LineA, LineAB>>), NoFile}

NewTask == [pc |-> "unsubmitted", w |-> 0, path |-> MergedPath, isTmp |-> FALSE,
            off |-> 0, result |-> Unset,
            hit |-> FALSE, sawSize |-> -1,
            built |-> FALSE, scored |-> FALSE, runs |-> 0]
NewWorker == [state |-> "down", gls |-> None, inits |-> 0]

Init ==
    /\ mode \in {"files", "names"}
    /\ gene_loc_set \in IF mode = "files" THEN RefSets ELSE NamesRefSets
    /\ max_workers \in 1..MaxWorkers
    /\ inputs \in SeqsUpTo(IF mode = "files" THEN BedNames ELSE Names, MaxInputs)
    /\ data_dir \in IF mode = "files" THEN {None} ELSE {None, CacheDir}
    /\ \E m \in IF mode = "files" THEN {NoFile} ELSE MergedFiles :
       \E pre \in {{}} \cup (IF data_dir = None \/ inputs = <<>>
                                  \/ m \notin StaleMerged THEN {}
                               ELSE {{inputs[1]}}) :
       \E old \in StaleContents :
         /\ fs = [p \in Paths |->
                    IF p = MergedPath THEN m
                    ELSE IF p \in BedPaths THEN BedFiles[p]
                    ELSE IF p.kind = "cache" /\ p.name \in pre THEN File(old)
                    ELSE NoFile]
         /\ dirs = IF pre = {} THEN {} ELSE {CacheDir}
    /\ fs0 = fs
    /\ pc = "run"
    /\ submitted = 0
    /\ futures = <<>>
    /\ results = [i \in 1..Len(inputs) |-> Unset]     \* [None] * len(inputs)
    /\ completed = <<>>
    /\ outcome = Unset
    /\ task = [f \in 1..Len(inputs) |-> NewTask]
    /\ worker = [w \in 1..max_workers |-> NewWorker]
    /\ slop_call = NoSlopCall

(***************************************************************************)
(* The worker processes.                                                   *)
(***************************************************************************)
Name(f) == inputs[futures[f]]           \* the argument the task was submitted with
Queued == {f \in Futures : task[f].pc = "queued"}
NextQueued == CHOOSE f \in Queued : \A g \in Queued : f <= g

\* A worker process starts and runs initializer(gene_loc_set) on its
\* private copy.  The pool starts its processes once work is submitted,
\* all at once or one per submit that finds no idle worker; a start
\* commutes with every step but the taking of a task, and the processes
\* are interchangeable, so the model starts the lowest-numbered process
\* not yet started when a task is queued that no idle worker is there to
\* take.
\* Variant: the initializer is run again in a process that is waiting for
\* its next task.
WorkerStart_Reinitializes(w) ==
    /\ Queued # {}
    /\ worker[w].state # "busy"
    /\ \A v \in 1..(w - 1) : worker[v].state = "busy"
    /\ worker' = [worker EXCEPT ![w] = [state |-> "idle", gls |-> gene_loc_set,
                                        inits |-> @.inits + 1]]
    /\ UNCHANGED <<slop_call, mode, inputs, gene_loc_set, max_workers, data_dir, fs, fs0, dirs,
                   pc, submitted, futures, results, completed, outcome, task>>
WorkerStart(w) ==
    /\ Queued # {}
    /\ worker[w].state = "down"
    /\ \A v \in 1..(w - 1) : worker[v].state = "busy"
    /\ worker' = [worker EXCEPT ![w] = [state |-> "idle", gls |-> gene_loc_set,
                                        inits |-> @.inits + 1]]
    /\ UNCHANGED <<slop_call, mode, inputs, gene_loc_set, max_workers, data_dir, fs, fs0, dirs,
                   pc, submitted, futures, results, completed, outcome, task>>


\* The file a task scores is identified in a FileNotFoundError by its path.
PathIdent(p) == IF p.kind \in {"bed", "cache"} THEN {p.name} ELSE {}

\* Variant: the task consumes the first region of the worker's set.
Freed_SetConsumed(wk) == [wk EXCEPT !.state = "idle", !.gls = Tail(@)]
\* The worker process after a task: free for the next, its global
\* _gene_loc_set as it was (the task functions only read it).
Freed(wk) == [wk EXCEPT !.state = "idle"]

\* Variant: the temporary file is made with delete=False.
CloseOut_KeepsFile(t, files) == files
\* Leaving the with block closes stdout; closing a NamedTemporaryFile
\* deletes it, closing the cache file leaves it.
CloseOut(t, files) ==
    IF t.isTmp THEN [files EXCEPT ![t.path] = NoFile] ELSE files

\* Variant: a task that raised is queued again, once.
EndTask_RetryFailed(f, t, r, files) ==
    /\ task' = [task EXCEPT ![f] = [t EXCEPT !.pc = IF IsExc(r) /\ t.runs < 2
                                                    THEN "queued" ELSE "done",
                                            !.result = r,
                                            !.w = 0, !.path = MergedPath,
                                            !.isTmp = FALSE, !.off = 0]]
    /\ worker' = [worker EXCEPT ![task[f].w] = Freed(@)]
    /\ fs' = CloseOut(task[f], files)
\* The task of future f ends with r: the with block is left (a temporary
\* file is deleted on close), the function's locals are gone, the future
\* is resolved, the worker is free.  Nothing runs a task a second time.
EndTask(f, t, r, files) ==
    /\ task' = [task EXCEPT ![f] = [t EXCEPT !.pc = "done", !.result = r,
                                            !.w = 0, !.path = MergedPath,
                                            !.isTmp = FALSE, !.off = 0]]
    /\ worker' = [worker EXCEPT ![task[f].w] = Freed(@)]
    /\ fs' = CloseOut(task[f], files)

\* Variant: the cache file is not looked for.
CacheExists_Ignored(data_path) == FALSE
\* if data_path and os.path.exists(data_path)
CacheExists(data_path) == data_dir # None /\ fs[data_path].exists

\* A free worker takes the oldest queued task and enters its function:
\* process_bed_file goes to _extract_features; process_bed_file_for_name
\* makes the cache directory and tests for the cache file.
TaskStart(w) ==
    /\ worker[w].state = "idle"
    /\ \A v \in 1..(w - 1) : worker[v].state # "idle"
    /\ Queued # {}
    /\ LET f == NextQueued
           name == Name(f)
           data_path == CachePath(name)
           cached == CacheExists(data_path)
       IN /\ task' = [task EXCEPT ![f] =
                 IF mode = "files"
                 THEN [@ EXCEPT !.pc = "stat", !.w = w, !.path = BedPath(name),
                                !.runs = @ + 1]
                 ELSE IF cached
                 THEN [@ EXCEPT !.pc = "stat", !.w = w, !.path = data_path,
                                !.hit = TRUE, !.runs = @ + 1]
                 ELSE [@ EXCEPT !.pc = "open", !.w = w, !.runs = @ + 1,
                                !.path = IF data_dir # None THEN data_path
                                         ELSE TmpPath(w),
                                !.isTmp = (data_dir = None)]]
          /\ dirs' = IF mode = "names" /\ data_dir # None
                     THEN dirs \cup {data_dir} ELSE dirs
    /\ worker' = [worker EXCEPT ![w].state = "busy"]
    /\ UNCHANGED <<slop_call, mode, inputs, gene_loc_set, max_workers, data_dir, fs, fs0,
                   pc, submitted, futures, results, completed, outcome>>

\* open(data_path, "w") or NamedTemporaryFile(): the file is created, or
\* truncated if it exists.
OpenOut(f) ==
    /\ task[f].pc = "open"
    /\ fs' = [fs EXCEPT ![task[f].path] = File(<<>>)]
    /\ task' = [task EXCEPT ![f].pc = "rg", ![f].off = 0]
    /\ UNCHANGED <<slop_call, mode, inputs, gene_loc_set, max_workers, data_dir, fs0, dirs, pc,
                   submitted, futures, results, completed, outcome, worker>>

\* A write of one line at line offset k of a file descriptor opened without
\* O_APPEND: the file is extended by a gap if it is shorter.
WriteAt(file, k, line) ==
    LET old == file.data
        len == IF Len(old) >= k THEN Len(old) ELSE k
    IN File([i \in 1..len |-> IF i = k THEN line
                             ELSE IF i <= Len(old) THEN old[i] ELSE Hole])

\* rg prints its next matching line to the task's stdout; after the last
\* it exits with status 0 and subprocess.run returns.
RgWrite(f) ==
    /\ task[f].pc = "rg"
    /\ fs[MergedPath].exists
    /\ LET out == RgOutput(Name(f), fs[MergedPath].data)
       IN /\ task[f].off < Len(out)
          /\ fs' = [fs EXCEPT ![task[f].path] =
                       WriteAt(@, task[f].off + 1, out[task[f].off + 1])]
          /\ task' = [task EXCEPT ![f].off = @ + 1,
                                  ![f].pc = IF task[f].off + 1 = Len(out)
                                            THEN "stat" ELSE "rg"]
    /\ UNCHANGED <<slop_call, mode, inputs, gene_loc_set, max_workers, data_dir, fs0, dirs, pc,
                   submitted, futures, results, completed, outcome, worker>>

\* rg exits with a status other than 0, having printed nothing;
\* subprocess.run(check=True) raises CalledProcessError, whose message is
\* the command line.
RgExit(f) ==
    /\ task[f].pc = "rg"
    /\ RgStatus(Name(f), fs[MergedPath]) # 0
    /\ EndTask(f, task[f], Exc("CalledProcessError", {Name(f)}), fs)
    /\ UNCHANGED <<slop_call, mode, inputs, gene_loc_set, max_workers, data_dir, fs0, dirs, pc,
                   submitted, futures, results, completed, outcome>>

\* Variant: the size test is left out.
is_empty_file_Never(file) == FALSE
is_empty_file(file) == Len(file.data) = 0      \* os.stat(file).st_size == 0

\* _extract_features, first part: the size test and the zero vector.
Stat(f) ==
    /\ task[f].pc = "stat"
    /\ LET file == fs[task[f].path]
           R == worker[task[f].w].gls
           t == [task[f] EXCEPT !.sawSize = Len(file.data)]
       IN IF ~file.exists
          THEN EndTask(f, task[f],
                       Exc("FileNotFoundError", PathIdent(task[f].path)), fs)
          ELSE IF is_empty_file(file)
          THEN EndTask(f, t, Vec(zeros(Len(R))), fs)
          ELSE /\ task' = [task EXCEPT ![f] = [t EXCEPT !.pc = "read"]]
               /\ UNCHANGED <<fs, worker>>
    /\ UNCHANGED <<slop_call, mode, inputs, gene_loc_set, max_workers, data_dir, fs0, dirs, pc,
                   submitted, futures, results, completed, outcome>>

\* What building and scoring the query regions of a file gives.  A file
\* that has lost its content since the size test gives a region set with
\* no region, which the interval index may refuse: either outcome.
ScoreOutcomes(lines, R) ==
    IF ~Parsable(lines) THEN {Exc("ValueError", {})}
    ELSE IF lines = <<>> THEN {Vec(MakeBasicRpMapSum(R, lines)), Exc("ValueError", {})}
    ELSE {Vec(MakeBasicRpMapSum(R, lines))}

\* _extract_features, second part: prepare_region_set reads and parses
\* the file, _make_basic_rp_map scores it, the rows are summed.
Read(f) ==
    /\ task[f].pc = "read"
    /\ LET file == fs[task[f].path]
           R == worker[task[f].w].gls
       IN IF ~file.exists
          THEN EndTask(f, task[f],
                       Exc("FileNotFoundError", PathIdent(task[f].path)), fs)
          ELSE \E r \in ScoreOutcomes(file.data, R) :
                 EndTask(f, [task[f] EXCEPT !.built = Parsable(file.data),
                                            !.scored = IsVec(r)], r, fs)
    /\ UNCHANGED <<slop_call, mode, inputs, gene_loc_set, max_workers, data_dir, fs0, dirs, pc,
                   submitted, futures, results, completed, outcome>>

(***************************************************************************)
(* The orchestrator: extract_features_parallel / extract_features_chip_atlas *)
(***************************************************************************)
\* The dict comprehension: executor.submit(...) for each input in input
\* order, future f mapped to its index.  submit only queues the call and
\* returns, so the comprehension is one step of the orchestrator.
\* Variant: the inputs are submitted last to first.
Submit_LastFirst ==
    /\ pc = "run"
    /\ submitted = 0
    /\ N > 0
    /\ submitted' = N
    /\ futures' = [f \in 1..N |-> N + 1 - f]
    /\ task' = [f \in 1..N |-> [task[f] EXCEPT !.pc = "queued"]]
    /\ UNCHANGED <<slop_call, mode, inputs, gene_loc_set, max_workers, data_dir, fs, fs0, dirs,
                   pc, results, completed, outcome, worker>>
Submit ==
    /\ pc = "run"
    /\ submitted = 0
    /\ N > 0
    /\ submitted' = N
    /\ futures' = [f \in 1..N |-> f]
    /\ task' = [f \in 1..N |-> [task[f] EXCEPT !.pc = "queued"]]
    /\ UNCHANGED <<slop_call, mode, inputs, gene_loc_set, max_workers, data_dir, fs, fs0, dirs,
                   pc, results, completed, outcome, worker>>

\* Variant: every result is put in the first slot.
SlotIndex_FirstSlot(f) == 1
\* Variant: results are placed in the order of completion.
SlotIndex_ByCompletion(f) == Len(completed) + 1
SlotIndex(f) == futures[f]                  \* index = futures[future]
ResultRaises(r) == IsExc(r)                 \* future.result() raises the task's exception
\* Variant: the orchestrator raises an error of its own instead.
Reraised_Wrapped(r) == Exc("RuntimeError", {})
Reraised(r) == r                            \* ... the exception object itself

\* Variant: a failed task is skipped and its column filled with zeros.
Collect_ZeroFillOnFailure(f) ==
    /\ pc = "run"
    /\ submitted = N
    /\ f \notin Range(completed)
    /\ task[f].pc = "done"
    /\ completed' = Append(completed, f)
    /\ results' = [results EXCEPT ![SlotIndex(f)] =
                     IF ResultRaises(task[f].result)
                     THEN Vec(zeros(Len(gene_loc_set))) ELSE task[f].result]
    /\ UNCHANGED <<slop_call, mode, inputs, gene_loc_set, max_workers, data_dir, fs, fs0, dirs,
                   pc, outcome, submitted, futures, task, worker>>

\* One round of the as_completed loop, on a finished future not yet seen.
Collect(f) ==
    /\ pc = "run"
    /\ submitted = N
    /\ f \notin Range(completed)
    /\ task[f].pc = "done"
    /\ completed' = Append(completed, f)
    /\ IF ResultRaises(task[f].result)
       THEN /\ pc' = "unwind"
            /\ outcome' = Reraised(task[f].result)
            /\ UNCHANGED results
       ELSE /\ results' = [results EXCEPT ![SlotIndex(f)] = task[f].result]
            /\ UNCHANGED <<pc, outcome>>
    /\ UNCHANGED <<slop_call, mode, inputs, gene_loc_set, max_workers, data_dir, fs, fs0, dirs,
                   submitted, futures, task, worker>>

\* Variant: the pool is shut down without waiting (shutdown(wait=False)).
AllTasksDone_NoWait == TRUE
AllTasksDone == \A f \in Futures : task[f].pc = "done"

\* An exception leaves the with block: ProcessPoolExecutor.__exit__ is
\* shutdown(wait=True), which returns when every submitted task has run.
Raise ==
    /\ pc = "unwind"
    /\ AllTasksDone
    /\ pc' = "raised"
    /\ UNCHANGED <<slop_call, mode, inputs, gene_loc_set, max_workers, data_dir, fs, fs0, dirs,
                   submitted, futures, results, completed, outcome, task, worker>>

\* Column labels: a position of the default RangeIndex, or an identifier.
PosLabel(k) == [pos |-> k, id |-> <<>>]
IdLabel(x) == [pos |-> -1, id |-> x]
\* Variant: labels counted from one.
Columns_OneBased(n) == [i \in 1..n |-> PosLabel(i)]
Columns(n) == [i \in 1..n |-> PosLabel(i - 1)]     \* pd.DataFrame(features, index=...)
\* np.stack(results).T: row k, column i is results[i][k].
StackT(res, nrows) == [k \in 1..nrows |-> [i \in 1..Len(res) |-> res[i].val[k]]]
Matrix(index, columns, data) ==
    [kind |-> "matrix", val |-> [index |-> index, columns |-> columns, data |-> data],
     ident |-> {}]

\* The loop ends; np.stack (which refuses an empty list) and the DataFrame.
Return ==
    /\ pc = "run"
    /\ submitted = N
    /\ Range(completed) = Futures
    /\ IF N = 0
       THEN /\ pc' = "raised"
            /\ outcome' = Exc("ValueError", {})
       ELSE /\ pc' = "returned"
            /\ outcome' = Matrix(extract_region_names(gene_loc_set), Columns(N),
                                 StackT(results, Len(gene_loc_set)))
    /\ UNCHANGED <<slop_call, mode, inputs, gene_loc_set, max_workers, data_dir, fs, fs0, dirs,
                   submitted, futures, results, completed, task, worker>>

Next ==
    \/ Submit
    \/ \E w \in Workers : WorkerStart(w)
    \/ \E w \in Workers : TaskStart(w)
    \/ \E f \in Futures : OpenOut(f)
    \/ \E f \in Futures : RgWrite(f)
    \/ \E f \in Futures : RgExit(f)
    \/ \E f \in Futures : Stat(f)
    \/ \E f \in Futures : Read(f)
    \/ \E f \in Futures : Collect(f)
    \/ Raise
    \/ Return

Spec == Init /\ [][Next]_vars

(***************************************************************************)
(* Calls of the patched Region.slop on their own.                          *)
(***************************************************************************)
SlopInit ==
    /\ slop_call \in [pc : {"call"}, self : SlopRegions, d : 0..MaxCoord,
                       genome : Genomes, out : {NoSlopCall.out}]
    /\ mode = "files" /\ inputs = <<>> /\ gene_loc_set = <<Region(0, "g1")>>
    /\ max_workers = 1 /\ data_dir = None
    /\ fs = [p \in Paths |-> NoFile] /\ fs0 = fs /\ dirs = {}
    /\ pc = "run" /\ submitted = 0 /\ futures = <<>> /\ results = <<>>
    /\ completed = <<>> /\ outcome = Unset /\ task = <<>>
    /\ worker = [w \in 1..1 |-> NewWorker]
CallSlop ==
    /\ slop_call.pc = "call"
    /\ slop_call' = [slop_call EXCEPT
                       !.pc = "returned",
                       !.out = slop(slop_call.self, slop_call.d, slop_call.genome)]
    /\ UNCHANGED <<mode, inputs, gene_loc_set, max_workers, data_dir, fs, fs0, dirs,
                   pc, submitted, futures, results, completed, outcome, task, worker>>
SlopNext == CallSlop
SlopSpec == SlopInit /\ [][SlopNext]_vars

\* The batches whose progress is followed to the end, all on the larger
\* reference set: every batch over files; of the batches over names,
\* those on a merged file that has lines of some names and none of
\* another, or that is not there.
FairMerged == {File(<<LineA>>), NoFile}
FairInit ==
    /\ Init
    /\ gene_loc_set \in NamesRefSets
    /\ mode = "names" => fs[MergedPath] \in FairMerged
\* The orchestrator, the worker processes and rg are processes of the
\* operating system: one that can take a step is scheduled in the end.
FairSpec == FairInit /\ [][Next]_vars /\ WF_vars(Next)

(***************************************************************************)
(* Reference outcomes.                                                     *)
(***************************************************************************)
\* _extract_features on a file no one else touches.
FileOutcome(file, ident, R) ==
    IF ~file.exists THEN Exc("FileNotFoundError", ident)
    ELSE IF is_empty_file(file) THEN Vec(zeros(Len(R)))
    ELSE IF ~Parsable(file.data) THEN Exc("ValueError", {})
    ELSE Vec(MakeBasicRpMapSum(R, file.data))
\* process_bed_file_for_name called alone, the cache file not there (or no
\* data_dir): the filter, then _extract_features on its output.
SolitaryOutcome(name, merged, R) ==
    IF RgStatus(name, merged) # 0 THEN Exc("CalledProcessError", {name})
    ELSE FileOutcome(File(RgOutput(name, merged.data)), {}, R)

Done(f) == task[f].pc = "done"
Ended == pc \in {"returned", "raised"}
Column(m, i) == [k \in 1..Len(m.data) |-> m.data[k][i]]
CacheEmptyAtCall == \A n \in Names : ~fs0[CachePath(n)].exists

(***************************************************************************)
(* Properties.                                                             *)
(***************************************************************************)
\* C1: in the matrix of a successful batch, column i is the feature vector
\* computed for inputs[i] (by the task submitted for index i; for a batch
\* over files, the vector of the file inputs[i]), whatever the order in
\* which the tasks completed.
C1_ColumnIsInputsVector ==
    pc = "returned" =>
      \A i \in 1..N :
        /\ \E f \in Futures : /\ futures[f] = i
                              /\ Column(outcome.val, i) = task[f].result.val
        /\ mode = "files" =>
             Vec(Column(outcome.val, i))
               = FileOutcome(fs0[BedPath(inputs[i])], {inputs[i]}, gene_loc_set)
\* A batch of two files with different vectors whose tasks completed in
\* the reverse of input order.
C1_Witness ==
    /\ pc = "returned" /\ mode = "files" /\ N = 2
    /\ completed = <<2, 1>>
    /\ Column(outcome.val, 1) # Column(outcome.val, 2)

\* C2: a task whose size test saw a zero-byte file ends with the all-zero
\* vector of length len(R), having neither built a query region set nor
\* scored.
C2_EmptyFileZeroVector ==
    \A f \in Futures :
      /\ (Done(f) /\ task[f].sawSize = 0) =>
            /\ task[f].result = Vec([k \in 1..Len(gene_loc_set) |-> 0])
            /\ ~task[f].built
            /\ ~task[f].scored
      /\ (Done(f) /\ mode = "files" /\ fs0[BedPath(Name(f))] = File(<<>>))
            => task[f].sawSize = 0
C2_Witness ==
    \E f \in Futures :
      /\ Done(f) /\ mode = "files" /\ Name(f) = <<"e">>
      /\ task[f].sawSize = 0 /\ Len(gene_loc_set) = 2
      /\ task[f].result.val = <<0, 0>>

\* C3: a requested name with no matching line in the merged file is not an
\* error: the extraction that filters for it gives the all-zero vector.
C3_AbsentNameZeroVector ==
    \A f \in Futures :
      (/\ Done(f) /\ mode = "names" /\ ~task[f].hit
       /\ fs0[MergedPath].exists
       /\ RgOutput(Name(f), fs0[MergedPath].data) = <<>>)
      => task[f].result = Vec([k \in 1..Len(gene_loc_set) |-> 0])

\* C4: two calls in sequence with the same merged file, name and cache
\* directory end alike (the same vector), and the second is served from
\* the cache file without filtering again.
C4_TwiceSameOutcome ==
    (/\ mode = "names" /\ data_dir # None /\ max_workers = 1
     /\ fs0[MergedPath].exists
     /\ N = 2 /\ inputs[1] = inputs[2]
     /\ Done(1) /\ Done(2))
    => /\ task[1].result = task[2].result
       /\ task[2].hit

\* C5: the cache is a pure memoization layer: a call served from a cache
\* file that a call on the same merged file wrote gives what the call that
\* filtered gave, which is what a call without cache directory gives.
C5_CacheIsMemoization ==
    (/\ mode = "names" /\ data_dir # None /\ max_workers = 1
     /\ fs0[MergedPath].exists
     /\ N = 2 /\ inputs[1] = inputs[2]
     /\ Done(1) /\ Done(2) /\ ~task[1].hit /\ task[2].hit)
    => /\ task[1].result = SolitaryOutcome(inputs[1], fs0[MergedPath], gene_loc_set)
       /\ task[2].result = SolitaryOutcome(inputs[1], fs0[MergedPath], gene_loc_set)

\* C6: the filter selects exactly the lines whose name token equals the
\* requested name (seen in the private scratch file of a task when the
\* filter has exited).
C6_FilterSelectsExactToken ==
    \A f \in Futures :
      (task[f].pc = "stat" /\ task[f].isTmp)
      => fs[task[f].path].data
           = SelectSeq(fs0[MergedPath].data, LAMBDA l : l.tok = Name(f))

\* C7: workers sharing one cache directory only duplicate work: when the
\* batch has ended, every task for a name the merged file has lines of
\* has returned what a solitary call returns, and the cache file holds the
\* complete filtered lines.
C7_ConcurrencyOnlyDuplicatesWork ==
    (/\ mode = "names" /\ data_dir # None /\ CacheEmptyAtCall /\ Ended)
    => \A f \in Futures :
         RgStatus(Name(f), fs0[MergedPath]) = 0 =>
           /\ task[f].result = SolitaryOutcome(Name(f), fs0[MergedPath], gene_loc_set)
           /\ fs[CachePath(Name(f))]
                = File(RgOutput(Name(f), fs0[MergedPath].data))

\* The futures whose task raised.
Failed == {f \in Futures : Done(f) /\ IsExc(task[f].result)}

C9_AllOrNothing ==
    /\ Failed # {} => outcome.kind # "matrix"
    /\ Ended => (outcome.kind = "matrix" <=> pc = "returned")
    /\ pc = "returned" =>
         /\ \A f \in Futures : IsVec(task[f].result)
         /\ \A i \in 1..N : IsVec(results[i])
         /\ Len(outcome.val.data) = Len(gene_loc_set)
         /\ \A k \in 1..Len(outcome.val.data) : Len(outcome.val.data[k]) = N
\* A batch of two has raised: one task failed, the other succeeded and its
\* vector was in its slot before the failure was seen.
C9_Witness ==
    /\ pc = "raised" /\ N = 2
    /\ \E f, g \in Futures :
         /\ f \in Failed /\ IsVec(task[g].result)
         /\ completed = <<g, f>>
         /\ IsVec(results[futures[g]])

\* C10 (as claimed): the returned matrix has its rows keyed by the
\* reference regions' names in the reference set's order and its columns
\* keyed by the input identifiers in input order.
C10_LabelledByNamesAndInputs ==
    pc = "returned" =>
      /\ Len(outcome.val.index) = Len(gene_loc_set)
      /\ \A k \in 1..Len(gene_loc_set) :
           outcome.val.index[k] = gene_loc_set[k].annotation[1]
      /\ Len(outcome.val.columns) = N
      /\ \A i \in 1..N : outcome.val.columns[i] = IdLabel(inputs[i])
\* C10 (amended): the returned matrix has its rows keyed by the reference
\* regions' names in the reference set's order; its columns are in input
\* order and carry the default positional labels 0 .. n-1, not the input
\* identifiers.
C10_RowsNamedColumnsNumbered ==
    pc = "returned" =>
      /\ Len(outcome.val.index) = Len(gene_loc_set)
      /\ \A k \in 1..Len(gene_loc_set) :
           outcome.val.index[k] = gene_loc_set[k].annotation[1]
      /\ Len(outcome.val.columns) = N
      /\ \A i \in 1..N : outcome.val.columns[i] = [pos |-> i - 1, id |-> <<>>]
C10_Witness ==
    /\ pc = "returned" /\ N = 2 /\ inputs[1] # inputs[2]
    /\ outcome.val.index = <<"g1", "g2">>
    /\ outcome.val.columns[2].pos = 1

\* What the call-time environment alone gives for an input element: for
\* a file, _extract_features on it; for a name, the cache file if there
\* is one, else the filter and _extract_features on its output.
ElementOutcome(x) ==
    IF mode = "files" THEN FileOutcome(fs0[BedPath(x)], {x}, gene_loc_set)
    ELSE IF data_dir # None /\ fs0[CachePath(x)].exists
    THEN FileOutcome(fs0[CachePath(x)], {x}, gene_loc_set)
    ELSE SolitaryOutcome(x, fs0[MergedPath], gene_loc_set)

\* C11: order invariance under permutation, under every schedule: the
\* column of a returned batch at the position of an input element is a
\* function of that element (and the files the batch was called on), not
\* of the element's position, of the other elements or of the order of
\* completion; so a batch on a permuted list, its columns moved back, has
\* the columns of the batch on the original list.
C11_OrderInvariance ==
    pc = "returned" =>
      \A i \in 1..N : Vec(Column(outcome.val, i)) = ElementOutcome(inputs[i])

C13_CacheHitUsesFileAsIs ==
    \A f \in Futures :
      /\ (/\ task[f].pc \notin {"unsubmitted", "queued"}
          /\ mode = "names" /\ data_dir # None
          /\ fs0[CachePath(Name(f))].exists)
         => /\ task[f].hit
            /\ fs[CachePath(Name(f))] = fs0[CachePath(Name(f))]
            /\ Done(f) => task[f].result
                            = FileOutcome(fs0[CachePath(Name(f))], {Name(f)},
                                          gene_loc_set)
      /\ task[f].hit => /\ task[f].pc \in {"stat", "read", "done"}
                        /\ ~task[f].isTmp
                        /\ task[f].off = 0
\* A task was served from a stale cache file while there is no merged
\* file at all, and has scored the stale line.
C13_Witness ==
    /\ mode = "names" /\ N >= 1 /\ Done(1) /\ task[1].hit
    /\ ~fs0[MergedPath].exists
    /\ fs0[CachePath(Name(1))] = File(<<LineB>>)
    /\ Len(gene_loc_set) = 2
    /\ task[1].result = Vec(<<0, 1>>)

\* The futures whose task filters or has filtered (a cache miss).
Missed == {f \in Futures : /\ task[f].pc \notin {"unsubmitted", "queued"}
                           /\ mode = "names" /\ ~task[f].hit}
Running(f) == task[f].pc \in {"open", "rg", "stat", "read"}

\* C14: on a cache miss the filtered lines are in exactly one place.  With
\* a cache directory it is {data_dir}/{name}.bed, which exists from the
\* moment the filter's output is opened and is there when the call and the
\* batch have ended (with the complete filter output once the batch has
\* ended, if the filter succeeded), and no scratch file is ever made.  With
\* no cache directory it is the scratch file of the running call, which
\* is gone once the call has returned or raised, and the batch leaves the
\* file system as it found it.  Nothing else is ever written.
C14_FilteredLinesInOnePlace ==
    /\ \A p \in Paths : p.kind \in {"merged", "bed"} => fs[p] = fs0[p]
    /\ \A p \in Paths :
         p.kind = "cache" /\ fs[p] # fs0[p]
           => /\ data_dir # None /\ fs[p].exists
              /\ \E f \in Missed : p = CachePath(Name(f))
    /\ \A p \in Paths :
         p.kind = "tmp" /\ fs[p].exists
           => /\ data_dir = None
              /\ \E f \in Missed : /\ Running(f) /\ task[f].isTmp
                                   /\ task[f].path = p /\ task[f].w = p.w
    /\ \A f \in Missed :
         /\ task[f].pc # "open" /\ data_dir # None
              => fs[CachePath(Name(f))].exists
         /\ Ended /\ data_dir # None /\ RgStatus(Name(f), fs0[MergedPath]) = 0
              => fs[CachePath(Name(f))].data
                   = RgOutput(Name(f), fs0[MergedPath].data)
    /\ (Ended /\ data_dir = None) => fs = fs0
\* A batch over two names without cache directory has raised: one call
\* filtered into its scratch file and returned a vector, the other's
\* filter failed; no file is left.
C14_Witness ==
    /\ pc = "raised" /\ mode = "names" /\ data_dir = None /\ N = 2
    /\ Missed = {1, 2}
    /\ \E f, g \in Futures :
         /\ IsVec(task[f].result) /\ task[f].result # Vec(zeros(Len(gene_loc_set)))
         /\ task[g].result.kind = "CalledProcessError"
         /\ fs0[MergedPath].exists
    /\ fs = fs0

\* C16: in every worker process the initializer runs once, before the
\* worker's first task: a process that has not run it holds no reference
\* set and runs no task; a process that has run it holds the caller's
\* reference set and never runs it again; every running task is in a
\* process whose reference set is installed, and every vector a task
\* returns has the length of that set.
C16_InitializerOncePerWorker ==
    /\ \A w \in Workers :
         /\ worker[w].inits <= 1
         /\ worker[w].state = "down" <=> worker[w].inits = 0
         /\ worker[w].inits = 0 => worker[w].gls = None
         /\ worker[w].inits = 1 => worker[w].gls = gene_loc_set
    /\ \A f \in Futures :
         /\ Running(f) => /\ task[f].w \in Workers
                          /\ worker[task[f].w].state = "busy"
                          /\ worker[task[f].w].inits = 1
                          /\ worker[task[f].w].gls # None
         /\ (Done(f) /\ IsVec(task[f].result))
              => Len(task[f].result.val) = Len(gene_loc_set)
\* One worker process has run two tasks, both returning vectors over the
\* two reference regions, on one run of the initializer.
C16_Witness ==
    /\ max_workers = 1 /\ N = 2 /\ Done(1) /\ Done(2)
    /\ worker[1].inits = 1 /\ worker[1].gls = gene_loc_set
    /\ Len(gene_loc_set) = 2
    /\ IsVec(task[1].result) /\ IsVec(task[2].result)
    /\ Len(task[2].result.val) = 2

\* C17: the reference set (regions and their coordinates) is unchanged by
\* a batch: no step of the orchestrator or of a task, on any path, changes
\* the caller's set, and a worker's copy, once installed, stays equal to
\* the caller's set.
C17_ReferenceSetUnchanged ==
    [][/\ gene_loc_set' = gene_loc_set
       /\ \A w \in Workers :
            worker[w].gls # None => /\ worker'[w].gls = worker[w].gls
                                    /\ worker'[w].gls = gene_loc_set']_vars
\* A batch over two names with a cache directory has ended, one task
\* served from the cache and one having filtered, and every started
\* worker still holds the caller's two regions.
C17_Witness ==
    /\ Ended /\ mode = "names" /\ data_dir # None /\ N = 2
    /\ task[1].hit /\ Done(2) /\ ~task[2].hit
    /\ gene_loc_set = <<Region(0, "g1"), Region(2, "g2")>>
    /\ \A w \in Workers : worker[w].inits = 1 => worker[w].gls = gene_loc_set
    /\ \E w \in Workers : worker[w].inits = 1

\* C18: exactly one task is submitted per input element, in input order
\* (the k-th future submitted is the one for inputs[k], and no task is run
\* twice), and at every moment at most max_workers tasks are executing,
\* each in a worker process of its own.
C18_OneTaskPerInputBoundedPool ==
    /\ submitted \in {0, N}
    /\ submitted = 0 => \A f \in Futures : task[f].pc = "unsubmitted"
    /\ (submitted = N /\ N > 0)
         => /\ Len(futures) = N
            /\ \A f \in Futures : /\ futures[f] = f
                                  /\ Name(f) = inputs[f]
                                  /\ task[f].pc # "unsubmitted"
                                  /\ task[f].runs = IF task[f].pc = "queued" THEN 0
                                                    ELSE 1
    /\ Cardinality({f \in Futures : Running(f)}) <= max_workers
    /\ \A f, g \in Futures :
         (Running(f) /\ Running(g) /\ f # g) => task[f].w # task[g].w
    /\ Cardinality({w \in Workers : worker[w].state = "busy"})
         = Cardinality({f \in Futures : Running(f)})
\* A pool of one worker with two inputs: the first task is executing, the
\* second waits in the queue.
C18_Witness ==
    /\ max_workers = 1 /\ N = 2 /\ inputs[1] # inputs[2]
    /\ Running(1) /\ task[2].pc = "queued"
    /\ worker[1].state = "busy"

\* What a call for name x, run alone with the cache directory, leaves in
\* the cache file of x: the file that was there, or else the output of the
\* filter (nothing, if the merged file cannot be read).
CacheAfter(x) ==
    IF fs0[CachePath(x)].exists THEN fs0[CachePath(x)]
    ELSE IF fs0[MergedPath].exists THEN File(RgOutput(x, fs0[MergedPath].data))
    ELSE File(<<>>)
PairwiseDistinct == \A i, j \in 1..N : i # j => inputs[i] # inputs[j]

\* C19: tasks for different names do not interfere through the cache
\* directory.  A task for name n works on no cache file but that of n, and
\* a cache file changes only while a task for its name is there; so in a
\* batch over pairwise distinct names, under every interleaving (and with
\* one worker, the tasks one after another), each finished task has ended
\* as the call for its name alone ends, and its cache file holds what that
\* call leaves.
C19_DistinctNamesDoNotInterfere ==
    (submitted = N /\ N > 0 /\ mode = "names" /\ data_dir # None)
    => /\ \A f \in Futures :
            Running(f) => task[f].path = CachePath(Name(f))
       /\ \A n \in Names :
            fs[CachePath(n)] # fs0[CachePath(n)]
              => \E f \in Futures : Name(f) = n /\ task[f].pc # "queued"
       /\ PairwiseDistinct
            => \A f \in Futures :
                 Done(f) => /\ task[f].result = ElementOutcome(Name(f))
                            /\ fs[CachePath(Name(f))] = CacheAfter(Name(f))
\* Two workers are filtering for two different names at the same time,
\* each having written the first of its two lines to its own cache file.
C19_Witness ==
    /\ mode = "names" /\ data_dir # None /\ N = 2 /\ submitted = N
    /\ inputs[1] # inputs[2]
    /\ task[1].pc = "rg" /\ task[1].off = 1
    /\ task[2].pc = "rg" /\ task[2].off = 1
    /\ Len(fs[CachePath(inputs[1])].data) = 1
    /\ Len(fs[CachePath(inputs[2])].data) = 1

\* C20: in the slot array every slot is written at most once (a slot that
\* holds a result keeps it), a slot is written only with the result of the
\* task submitted for its index, by the round of the loop that meets that
\* task's future, and when the loop has ended without an error every slot
\* holds a vector; also when inputs holds the same file or name twice.
C20_SlotsWrittenOnceAndFilled ==
    [][/\ \A i \in 1..N :
            /\ results[i] # Unset => results'[i] = results[i]
            /\ results'[i] # results[i]
                 => \E f \in Futures :
                      /\ futures[f] = i /\ Name(f) = inputs[i]
                      /\ Done(f)
                      /\ results'[i] = task[f].result
                      /\ f \notin Range(completed)
                      /\ completed' = Append(completed, f)
                      /\ \A j \in 1..N : j # i => results'[j] = results[j]
       /\ pc' = "returned" => \A i \in 1..N : IsVec(results'[i])]_vars
\* A batch whose two inputs are the same file has returned: both slots
\* were filled, the second first.
C20_Witness ==
    /\ pc = "returned" /\ N = 2 /\ inputs[1] = inputs[2]
    /\ completed = <<2, 1>>
    /\ IsVec(results[1]) /\ IsVec(results[2])
    /\ results[1] # Vec(zeros(Len(gene_loc_set)))

\* C21: a cache file exists after a call only if a filter run for its
\* name completed successfully and wrote its full output.  In a batch over
\* pairwise distinct names: a cache file that was not there at the call
\* and whose task has ended holds the complete output of a filter that
\* exited with status 0, and a task that filtered and failed (in the
\* filter or in scoring) has left no cache file.
C21_NoCacheFileFromFailedCall ==
    (submitted = N /\ N > 0 /\ mode = "names" /\ data_dir # None /\ PairwiseDistinct)
    => \A f \in Futures :
         (Done(f) /\ ~task[f].hit /\ ~fs0[CachePath(Name(f))].exists)
         => /\ fs[CachePath(Name(f))].exists
                 => /\ RgStatus(Name(f), fs0[MergedPath]) = 0
                    /\ fs[CachePath(Name(f))].data
                         = RgOutput(Name(f), fs0[MergedPath].data)
            /\ IsExc(task[f].result) => ~fs[CachePath(Name(f))].exists

\* C22: for every input list of length n, n = 0 included, and every
\* reference set R, a batch in which no task fails returns a matrix with
\* exactly len(R) rows and exactly n columns.
C22_MatrixShape ==
    (Ended /\ Failed = {})
    => /\ pc = "returned"
       /\ outcome.kind = "matrix"
       /\ Len(outcome.val.index) = Len(gene_loc_set)
       /\ Len(outcome.val.data) = Len(gene_loc_set)
       /\ \A k \in 1..Len(outcome.val.data) : Len(outcome.val.data[k]) = N
       /\ Len(outcome.val.columns) = N

\* C23: when the orchestrator has met a failed task, no submitted task is
\* cancelled: the exception reaches the caller only when every submitted
\* task has run to its end, once (with a cache directory, the tasks that
\* filtered have left their cache files); a batch that has met a failure
\* can only go on to raise, and every batch call ends, returning the
\* matrix or raising.
C23_NoCancellationAndEnds ==
    /\ [](pc = "raised" =>
            \A f \in Futures :
              /\ Done(f) /\ task[f].runs = 1 /\ task[f].result # Unset
              /\ (mode = "names" /\ data_dir # None /\ ~task[f].hit)
                   => fs[CachePath(Name(f))].exists)
    /\ [](pc = "returned" => AllTasksDone)
    /\ [][pc = "unwind" => pc' \in {"unwind", "raised"}]_vars
    /\ <>Ended
\* A batch over two names with a cache directory has raised on the first
\* failure it met; the other task, never collected, has run to its end
\* and written its cache file.
C23_Witness ==
    /\ pc = "raised" /\ mode = "names" /\ data_dir # None /\ N = 2
    /\ CacheEmptyAtCall
    /\ \E f, g \in Futures :
         /\ completed = <<f>> /\ f \in Failed
         /\ g # f /\ Done(g) /\ IsVec(task[g].result)
         /\ fs[CachePath(Name(g))].exists
         /\ fs[CachePath(Name(g))].data # <<>>

\* C24: the patched Region.slop(d, genome) returns, for every region and
\* every d >= 0, a region on the same chromosome whose start is the
\* region's start moved down by d but not below 0 and whose end is the
\* region's end moved up by d, also beyond the chromosome's length, which
\* is not looked at; the region's annotation is not carried over.
C24_SlopPadsWithoutClipping ==
    slop_call.pc = "returned" =>
      LET r == slop_call.self
          o == slop_call.out
          d == slop_call.d
      IN /\ o.chromosome = r.chromosome
         /\ o.start >= 0 /\ o.start <= r.start
         /\ r.start - o.start = (IF d <= r.start THEN d ELSE r.start)
         /\ o.end - r.end = d
         /\ o.end > o.start
         /\ \A g \in Genomes : slop(r, d, g) = o
         /\ o.annotation # r.annotation /\ o.annotation = <<>>
\* A region near the start of its chromosome was padded by more than its
\* start: the start stopped at 0 and the end went past the chromosome's
\* length.
C24_Witness ==
    /\ slop_call.pc = "returned"
    /\ slop_call.self.start = 1 /\ slop_call.d = 2
    /\ slop_call.out.start = 0
    /\ slop_call.out.end > slop_call.genome[slop_call.self.chromosome]
    /\ slop_call.self.end <= slop_call.genome[slop_call.self.chromosome]

====
